---- MODULE Spec2Model ----
(***************************************************************************)
(* Model of the Empower portfolio extractor (finTools_app.py): the         *)
(* process_webarchive pipeline, calculate_portfolio_statistics,            *)
(* create_morningstar_csv and create_text_report, over the files of one    *)
(* session directory.                                                      *)
(*                                                                         *)
(* Numbers.  pandas works on float64.  A float is modelled exactly as a    *)
(* record [k, n, d]: k = "fin" is the rational n/d (d > 0), and "pinf",    *)
(* "ninf", "nan" are the IEEE values a division by zero produces.          *)
(*                                                                         *)
(* Tables.  A DataFrame is [cols, n, Value, Shares, Value_numeric]: the    *)
(* set of column names, the number of rows and the cells of the columns    *)
(* the code computes with.  The cells of Name, Ticker and Symbol are only  *)
(* copied by the code; the cell of column c in row i is the pair <<c, i>>. *)
(***************************************************************************)
EXTENDS Integers, Sequences, FiniteSets, TLC

\* ------------------------------------------------------------------ bounds
MaxRows == 3        \* rows of a parsed holdings table (pipeline specification)
MaxLong == 12       \* rows of a long holdings table (report specification)

\* ------------------------------------------------------- program constants
TopN == 10          \* head(10) / iloc[10:] / len(...) > 10

\* ------------------------------------------------------------------ option
None == <<>>
Some(x) == <<x>>
IsNone(o) == o = <<>>

\* ------------------------------------------------------------------ floats
Fin(n) == [k |-> "fin", n |-> n, d |-> 1]
NaN == [k |-> "nan", n |-> 0, d |-> 1]
PInf == [k |-> "pinf", n |-> 0, d |-> 1]
NInf == [k |-> "ninf", n |-> 0, d |-> 1]

IsNaN(x) == x.k = "nan"
IsFin(x) == x.k = "fin"
Sign(n) == IF n > 0 THEN 1 ELSE IF n < 0 THEN -1 ELSE 0
FSign(x) == IF x.k = "fin" THEN Sign(x.n) ELSE IF x.k = "pinf" THEN 1 ELSE IF x.k = "ninf" THEN -1 ELSE 0

\* the rational n/d (d > 0) in lowest terms
Abs(n) == IF n < 0 THEN -n ELSE n
RECURSIVE Gcd(_, _)
Gcd(a, b) == IF b = 0 THEN a ELSE Gcd(b, a % b)
Ratio(n, d) ==
    LET g == Gcd(Abs(n), d)
    IN [k |-> "fin", n |-> n \div g, d |-> d \div g]

\* x + y in IEEE arithmetic
FAdd(x, y) ==
    IF IsNaN(x) \/ IsNaN(y) THEN NaN
    ELSE IF IsFin(x) /\ IsFin(y) THEN Ratio(x.n * y.d + y.n * x.d, x.d * y.d)
    ELSE IF IsFin(x) THEN y
    ELSE IF IsFin(y) THEN x
    ELSE IF x.k = y.k THEN x ELSE NaN

FNeg(x) ==
    IF IsFin(x) THEN [x EXCEPT !.n = -x.n]
    ELSE IF x.k = "pinf" THEN NInf ELSE IF x.k = "ninf" THEN PInf ELSE NaN

\* x * y in IEEE arithmetic (inf * 0 = nan)
FMul(x, y) ==
    IF IsNaN(x) \/ IsNaN(y) THEN NaN
    ELSE IF IsFin(x) /\ IsFin(y) THEN Ratio(x.n * y.n, x.d * y.d)
    ELSE IF FSign(x) * FSign(y) = 0 THEN NaN
    ELSE IF FSign(x) * FSign(y) > 0 THEN PInf ELSE NInf

\* x / y as numpy/pandas divide: x/0 is +-inf, 0/0 is nan, no exception
FDiv(x, y) ==
    IF IsNaN(x) \/ IsNaN(y) THEN NaN
    ELSE IF IsFin(x) /\ IsFin(y) THEN
        IF y.n = 0 THEN (IF x.n = 0 THEN NaN ELSE IF x.n > 0 THEN PInf ELSE NInf)
        ELSE IF y.n > 0 THEN Ratio(x.n * y.d, x.d * y.n)
        ELSE Ratio(-(x.n * y.d), -(x.d * y.n))
    ELSE IF IsFin(y) THEN (IF FSign(x) * (IF y.n >= 0 THEN 1 ELSE -1) > 0 THEN PInf ELSE NInf)
    ELSE IF IsFin(x) THEN Fin(0)
    ELSE NaN

\* numeric equality and order of two floats (false when either is nan)
FEq(x, y) ==
    /\ ~IsNaN(x) /\ ~IsNaN(y)
    /\ IF IsFin(x) /\ IsFin(y) THEN x.n * y.d = y.n * x.d ELSE x.k = y.k
FGt(x, y) ==
    /\ ~IsNaN(x) /\ ~IsNaN(y)
    /\ IF IsFin(x) /\ IsFin(y) THEN x.n * y.d > y.n * x.d
       ELSE IF x.k = y.k THEN FALSE
       ELSE x.k = "pinf" \/ y.k = "ninf"
FGe(x, y) == FGt(x, y) \/ FEq(x, y)

\* ------------------------------------------------------------- sequences
Range(s) == {s[i] : i \in 1..Len(s)}
Take(s, k) == SubSeq(s, 1, IF k < Len(s) THEN k ELSE Len(s))
Drop(s, k) == SubSeq(s, k + 1, Len(s))

RECURSIVE SumInt(_)
SumInt(s) == IF s = <<>> THEN 0 ELSE Head(s) + SumInt(Tail(s))

\* Series.sum(): nan cells are skipped (skipna), the empty sum is 0
RECURSIVE SeriesSum(_)
SeriesSum(s) ==
    IF s = <<>> THEN Fin(0)
    ELSE IF IsNaN(Head(s)) THEN SeriesSum(Tail(s))
    ELSE FAdd(Head(s), SeriesSum(Tail(s)))

\* Series.max() / Series.min(): nan for the empty series
SeriesMax(s) ==
    IF s = <<>> THEN NaN
    ELSE Fin(CHOOSE m \in Range(s) : \A x \in Range(s) : m >= x)
SeriesMin(s) ==
    IF s = <<>> THEN NaN
    ELSE Fin(CHOOSE m \in Range(s) : \A x \in Range(s) : m <= x)

\* Indices of S in increasing order (the original row order)
RECURSIVE AscSeq(_)
AscSeq(S) ==
    IF S = {} THEN <<>>
    ELSE LET m == CHOOSE i \in S : \A j \in S : i <= j
         IN <<m>> \o AscSeq(S \ {m})

\* ------------------------------------------------------------ cell texts
DigitChars == <<"0", "1", "2", "3", "4", "5", "6", "7", "8", "9">>
DigitSet == Range(DigitChars)
DigitVal(c) == (CHOOSE i \in 1..10 : DigitChars[i] = c) - 1

\* str(n) of a non-negative / signed integer, as the CSV writer prints it
RECURSIVE NatText(_)
NatText(n) == IF n < 10 THEN <<DigitChars[n + 1]>> ELSE NatText(n \div 10) \o <<DigitChars[(n % 10) + 1]>>
IntText(n) == IF n < 0 THEN <<"-">> \o NatText(-n) ELSE NatText(n)

\* whether float(s) / the CSV reader's numeric inference accepts the text
UnsignedPart(s) == IF s # <<>> /\ Head(s) = "-" THEN Tail(s) ELSE s
IsNumberText(s) == UnsignedPart(s) # <<>> /\ \A i \in 1..Len(UnsignedPart(s)) : UnsignedPart(s)[i] \in DigitSet

RECURSIVE NatValue(_)
NatValue(s) == IF s = <<>> THEN 0 ELSE NatValue(SubSeq(s, 1, Len(s) - 1)) * 10 + DigitVal(s[Len(s)])
NumberValue(s) == IF s # <<>> /\ Head(s) = "-" THEN -NatValue(Tail(s)) ELSE NatValue(s)

\* Series.replace('[\$,]', '', regex=True) on one cell
\* mutant: the pattern also removes the sign
IsFormatChar_AlsoMinus(c) == c \in {"$", ",", "-"}

IsFormatChar(c) == c \in {"$", ","}
KeepChar(c) == ~IsFormatChar(c)
StripCurrency(s) == SelectSeq(s, KeepChar)

\* --------------------------------------------------------------- tables
ColNames == {"Name", "Ticker", "Symbol", "Shares", "Value"}

\* A raw value of a HoldingRecord: a number or a string
RawNum(n) == [k |-> "num", n |-> n, s |-> <<>>]
RawStr(s) == [k |-> "str", n |-> 0, s |-> s]

\* the text save_holdings_to_csv writes for a raw value
CsvText(raw) == IF raw.k = "num" THEN IntText(raw.n) ELSE raw.s

\* pd.read_csv(csv_path) of the file save_holdings_to_csv wrote: every cell
\* comes back as the text that was written; Value_numeric does not exist yet
ReadCsv(h) ==
    [cols |-> h.cols, n |-> h.n,
     Value |-> [i \in 1..Len(h.Value) |-> CsvText(h.Value[i])],
     Shares |-> h.Shares,
     Value_numeric |-> <<>>]

\* dtype pd.read_csv infers for the Value column: numeric only when every cell
\* is a number; an empty column is object
ValueDtype(df) ==
    IF df.Value # <<>> /\ \A i \in 1..Len(df.Value) : IsNumberText(df.Value[i])
    THEN "int64" ELSE "object"

\* mutant: a cell that is no number becomes 0 instead of raising
NormalizeValue_Coerce(df) ==
    [ok |-> TRUE,
     vals |-> [i \in 1..Len(df.Value) |->
                 IF IsNumberText(StripCurrency(df.Value[i]))
                 THEN NumberValue(StripCurrency(df.Value[i])) ELSE 0]]

\* lines 317-320: the cells as float, or the ValueError astype(float) raises
NormalizeCell(dtype, s) == IF dtype = "object" THEN StripCurrency(s) ELSE s
NormalizeValue(df) ==
    LET dt == ValueDtype(df)
        cells == [i \in 1..Len(df.Value) |-> NormalizeCell(dt, df.Value[i])]
    IN IF \E i \in 1..Len(cells) : ~IsNumberText(cells[i])
       THEN [ok |-> FALSE, vals |-> <<>>]
       ELSE [ok |-> TRUE, vals |-> [i \in 1..Len(cells) |-> NumberValue(cells[i])]]

\* df['Value_numeric'] = ...: the caller's table gains the column
WithValueNumeric(df, vals) ==
    [df EXCEPT !.cols = df.cols \cup {"Value_numeric"}, !.Value_numeric = vals]

\* ------------------------------------------------------------- sorting
\* sort_values(by=key, ascending=False) with the default kind='quicksort':
\* rows in non-increasing key order, rows of equal key in any order, and the
\* rows whose key is nan last, in their original order (na_position='last').
RECURSIVE DescOrders(_, _)
DescOrders(S, key) ==
    IF S = {} THEN {<<>>}
    ELSE LET M == {i \in S : \A j \in S : FGe(key[i], key[j])}
         IN UNION {{<<i>> \o t : t \in DescOrders(S \ {i}, key)} : i \in M}

SortDescending(key) ==
    LET idx == DOMAIN key
        nans == {i \in idx : IsNaN(key[i])}
    IN {o \o AscSeq(nans) : o \in DescOrders(idx \ nans, key)}

\* ----------------------------------------------- calculate_portfolio_statistics
\* The stats dict: keys is the set of keys it holds; a field whose key is not
\* in keys was never assigned and holds the placeholder of NoStats.
NoStats ==
    [keys |-> {}, error |-> "", total_value |-> NaN, count |-> 0, avg_value |-> NaN,
     max_value |-> NaN, min_value |-> NaN, top_holdings |-> <<>>, holdings_pct |-> <<>>]

ErrNoValue == "Value column not found in data"
ErrMissingSymbol == "Missing required columns: Symbol"
ErrException == "Error calculating statistics"

SummaryKeys == {"total_value", "count", "avg_value", "max_value", "min_value"}

\* lines 323-327
SummaryStats(vals) ==
    LET total == SeriesSum([i \in 1..Len(vals) |-> Fin(vals[i])])
        count == Len(vals)
    IN [NoStats EXCEPT
          !.keys = SummaryKeys,
          !.total_value = total,
          !.count = count,
          !.avg_value = IF count > 0 THEN FDiv(total, Fin(count)) ELSE Fin(0),
          !.max_value = SeriesMax(vals),
          !.min_value = SeriesMin(vals)]

\* mutant: Symbol is taken as resolved without looking for the column
StatsSymbolColumn_Unchecked(cols) == IF "Ticker" \in cols THEN Some("Ticker") ELSE Some("Symbol")

\* lines 330-333: the column the canonical field Symbol is mapped to
StatsSymbolColumn(cols) == IF "Ticker" \in cols THEN Some("Ticker") ELSE None

\* line 351: Value_numeric / total_value * 100 of one row
PctOfTotal(v, total) == FMul(FDiv(Fin(v), total), Fin(100))

\* one row of holdings_pct: df_mapped[['Name', 'Symbol', 'Value_numeric', 'pct_of_total']]
PctRow(i, vals, total) ==
    [row |-> i, Name |-> <<"Name", i>>, Symbol |-> <<"Ticker", i>>,
     Value_numeric |-> vals[i], pct_of_total |-> PctOfTotal(vals[i], total)]

\* mutant: the ascending default of sort_values
TopHoldings_Ascending(vals) ==
    {Take([j \in 1..Len(o) |-> o[Len(o) + 1 - j]], TopN) :
        o \in SortDescending([i \in 1..Len(vals) |-> Fin(vals[i])])}

\* line 347: sort_values(by='Value_numeric', ascending=False).head(10), as row numbers
TopHoldings(vals) ==
    {Take(o, TopN) : o \in SortDescending([i \in 1..Len(vals) |-> Fin(vals[i])])}

\* line 355: the rows of holdings_pct sorted by pct_of_total, descending
HoldingsPct(vals, total) ==
    {[j \in 1..Len(o) |-> PctRow(o[j], vals, total)] :
        o \in SortDescending([i \in 1..Len(vals) |-> PctOfTotal(vals[i], total)])}

\* mutant: the unresolved Symbol is returned without recording the error
CalcStats_MissingSymbolUnrecorded(df) ==
    IF "Value" \notin df.cols
    THEN {[stats |-> [NoStats EXCEPT !.keys = {"error"}, !.error = ErrNoValue], df |-> df]}
    ELSE LET norm == NormalizeValue(df) IN
    IF ~norm.ok
    THEN {[stats |-> [NoStats EXCEPT !.keys = {"error", "traceback"}, !.error = ErrException],
           df |-> df]}
    ELSE LET df1 == WithValueNumeric(df, norm.vals)
             s1 == SummaryStats(norm.vals) IN
    IF IsNone(StatsSymbolColumn(df.cols))
    THEN {[stats |-> s1, df |-> df1]}
    ELSE IF "Name" \notin df.cols
    THEN {[stats |-> [s1 EXCEPT !.keys = @ \cup {"top_holdings", "error", "traceback"},
                                !.top_holdings = top, !.error = ErrException],
           df |-> df1] : top \in TopHoldings(norm.vals)}
    ELSE {[stats |-> [s1 EXCEPT !.keys = @ \cup {"top_holdings", "holdings_pct"},
                                !.top_holdings = top, !.holdings_pct = hp],
           df |-> df1] : top \in TopHoldings(norm.vals), hp \in HoldingsPct(norm.vals, s1.total_value)}

\* Every outcome [stats, df] of calculate_portfolio_statistics(df): the dict
\* returned and the caller's table as the call leaves it.
CalcStats(df) ==
    IF "Value" \notin df.cols
    THEN {[stats |-> [NoStats EXCEPT !.keys = {"error"}, !.error = ErrNoValue], df |-> df]}
    ELSE LET norm == NormalizeValue(df) IN
    IF ~norm.ok
    THEN {[stats |-> [NoStats EXCEPT !.keys = {"error", "traceback"}, !.error = ErrException],
           df |-> df]}
    ELSE LET df1 == WithValueNumeric(df, norm.vals)
             s1 == SummaryStats(norm.vals) IN
    IF IsNone(StatsSymbolColumn(df.cols))
    THEN {[stats |-> [s1 EXCEPT !.keys = @ \cup {"error"}, !.error = ErrMissingSymbol],
           df |-> df1]}
    ELSE IF "Name" \notin df.cols
    THEN \* df_mapped[cols_to_select] raises KeyError after top_holdings was stored
         {[stats |-> [s1 EXCEPT !.keys = @ \cup {"top_holdings", "error", "traceback"},
                                !.top_holdings = top, !.error = ErrException],
           df |-> df1] : top \in TopHoldings(norm.vals)}
    ELSE {[stats |-> [s1 EXCEPT !.keys = @ \cup {"top_holdings", "holdings_pct"},
                                !.top_holdings = top, !.holdings_pct = hp],
           df |-> df1] : top \in TopHoldings(norm.vals), hp \in HoldingsPct(norm.vals, s1.total_value)}

\* ------------------------------------------------------ create_morningstar_csv
\* line 369-370
TickerCol(cols) ==
    IF "Ticker" \in cols THEN Some("Ticker") ELSE IF "Symbol" \in cols THEN Some("Symbol") ELSE None
SharesCol(cols) == IF "Shares" \in cols THEN Some("Shares") ELSE None

\* mutant: an empty file is written when a column is missing
MorningstarTable_EmptyFile(df) ==
    IF IsNone(TickerCol(df.cols)) \/ IsNone(SharesCol(df.cols))
    THEN Some([header |-> <<"Ticker", "Shares">>, rows |-> <<>>])
    ELSE Some([header |-> <<"Ticker", "Shares">>,
               rows |-> [i \in 1..df.n |-> <<<<TickerCol(df.cols)[1], i>>, df.Shares[i]>>]])

\* lines 376-379: the two-column table, or None when a column is missing
MorningstarTable(df) ==
    IF IsNone(TickerCol(df.cols)) \/ IsNone(SharesCol(df.cols)) THEN None
    ELSE Some([header |-> <<"Ticker", "Shares">>,
               rows |-> [i \in 1..df.n |-> <<<<TickerCol(df.cols)[1], i>>, df.Shares[i]>>]])

\* ----------------------------------------------------------- create_text_report
\* lines 411-413: one line of the TOP HOLDINGS section
TopLine(r) == [Name |-> r.Name, Symbol |-> r.Symbol, pct |-> r.pct_of_total, value |-> r.Value_numeric]

\* lines 416-419: the "Other Holdings" line, or None
OtherLine(stats) ==
    IF Len(stats.holdings_pct) > TopN
    THEN LET rest == Drop(stats.holdings_pct, TopN)
             others_sum == SeriesSum([j \in 1..Len(rest) |-> rest[j].pct_of_total])
         IN Some([pct |-> others_sum,
                  value |-> FMul(FDiv(others_sum, Fin(100)), stats.total_value)])
    ELSE None

\* lines 426-434: one line of the ALL HOLDINGS section; shares is None when the
\* line has no ", N shares" segment (row.get('Shares', 'N/A') is 'N/A' only when
\* the table has no Shares column; a missing cell is nan, which is not 'N/A')
RowTicker(df, i) ==
    IF "Ticker" \in df.cols THEN <<"Ticker", i>>
    ELSE IF "Symbol" \in df.cols THEN <<"Symbol", i>> ELSE <<"N/A", 0>>
RowName(df, i) == IF "Name" \in df.cols THEN <<"Name", i>> ELSE <<"N/A", 0>>
AllLine(df, i) ==
    [name |-> RowName(df, i), ticker |-> RowTicker(df, i), value |-> df.Value_numeric[i],
     shares |-> IF "Shares" \in df.cols THEN Some(df.Shares[i]) ELSE None]

\* Every text create_text_report(stats, df, base) can write.  The numbers of a
\* line are the values handed to the format, before rounding to two decimals.
TextReports(stats, df) ==
    {[summary |-> [total_value |-> stats.total_value, count |-> stats.count,
                   avg_value |-> stats.avg_value, max_value |-> stats.max_value,
                   min_value |-> stats.min_value],
      top |-> [j \in 1..Len(Take(stats.holdings_pct, TopN)) |-> TopLine(stats.holdings_pct[j])],
      other |-> OtherLine(stats),
      all |-> [j \in 1..Len(o) |-> AllLine(df, o[j])]] :
        o \in SortDescending([i \in 1..Len(df.Value_numeric) |-> Fin(df.Value_numeric[i])])}

\* ------------------------------------------------------------- the inputs
\* extract_webarchive_text (read_empower_webarchive): a text, as its words
StartsWith(text, word) == Len(text) >= 1 /\ text[1] = word
ExtractedTexts == {<<>>, <<"Error", "reading", "file">>, <<"Holdings", "page">>}

\* extract_portfolio_holdings (read_empower_webarchive): the "Could not ..."
\* sentinel string, or the list of holding records
RawValues ==
    {RawNum(0), RawNum(1), RawNum(-2), RawStr(<<"$", "1", ",", "0">>), RawStr(<<"a">>)}

RECURSIVE SeqsOf(_, _)
SeqsOf(S, n) == IF n = 0 THEN {<<>>} ELSE {<<x>> \o t : x \in S, t \in SeqsOf(S, n - 1)}

\* the Shares cells of n rows, the cell of row miss missing (miss = 0: none)
SharesCells(n, miss) == [i \in 1..n |-> IF i = miss THEN None ELSE Some(4 + i)]

HoldingsTables(maxRows) ==
    UNION {
      {[cols |-> cols, n |-> n, Value |-> vs, Shares |-> sh] :
          vs \in (IF "Value" \in cols THEN SeqsOf(RawValues, n) ELSE {<<>>}),
          sh \in (IF "Shares" \in cols THEN {SharesCells(n, m) : m \in 0..n} ELSE {<<>>})} :
      cols \in (SUBSET ColNames) \ {{}}, n \in 0..maxRows}

EmptyHoldings == [cols |-> {}, n |-> 0, Value |-> <<>>, Shares |-> <<>>]
CouldNot == [kind |-> "str", s |-> <<"Could not", "find", "holdings">>, t |-> EmptyHoldings]
HoldingsList(t) == [kind |-> "list", s |-> <<>>, t |-> t]
NoHoldings == [kind |-> "none", s |-> <<>>, t |-> EmptyHoldings]

ParserOutputs == {CouldNot} \cup {HoldingsList(t) : t \in HoldingsTables(MaxRows)}

\* Long tables, of TopN - 1 to maxLong rows, all with Name, Shares and Value:
\*   "asc"     values 1, 2, ..., n
\*   "tiecut"  values n, n-1, ... with rows TopN and TopN + 1 of equal value
\*   "tietop"  values n, n, n-2, n-3, ...: rows 1 and 2 of equal value
\*   "nosym"   as "asc", with a Symbol column in place of Ticker
\* and one table of TopN + 1 rows whose values -5, ..., 5 sum to zero.
LongValue(pattern, n, i) ==
    CASE pattern = "tiecut" ->
            (IF i <= TopN THEN n + 1 - i ELSE IF i = TopN + 1 THEN n + 1 - TopN ELSE n + 2 - i)
      [] pattern = "tietop" -> (IF i = 1 THEN n ELSE n + 2 - i)
      [] pattern = "zero" -> 2 * i - (n + 1)
      [] OTHER -> i
LongCols(pattern) ==
    {"Name", "Shares", "Value"} \cup (IF pattern = "nosym" THEN {"Symbol"} ELSE {"Ticker"})
LongTable(pattern, n) ==
    [cols |-> LongCols(pattern), n |-> n,
     Value |-> [i \in 1..n |-> RawNum(LongValue(pattern, n, i))],
     Shares |-> SharesCells(n, 0)]
LongTables(maxLong) ==
    {LongTable(p, n) : p \in {"asc", "tiecut", "tietop", "nosym"}, n \in (TopN - 1)..maxLong}
        \cup {LongTable("zero", TopN + 1)}
LongParserOutputs == {CouldNot} \cup {HoldingsList(t) : t \in LongTables(MaxLong)}

\* ------------------------------------------------------------- the state
VARIABLES
    pc,              \* where process_webarchive stands
    extracted_text,  \* local of process_webarchive
    holdings_data,   \* local of process_webarchive
    df,              \* local of process_webarchive: the table read back from B.csv
    stats,           \* local of process_webarchive
    paths,           \* locals raw_data_path, csv_path, text_path, morningstar_path, report_path
    files,           \* the names of the files in the session's directory
    written,         \* what this invocation wrote, by file name
    result,          \* the dict the invocation returned (st.session_state.processed_result)
    dir_old,         \* the session's directory was last modified more than 24 hours ago
    other_dir,       \* the directory of another session: "absent", "fresh" or "old"
    display          \* what the last run of main made of the stored result

vars ==
    <<pc, extracted_text, holdings_data, df, stats, paths, files, written, result,
      dir_old, other_dir, display>>

\* the state of the sessions around one invocation of process_webarchive
session == <<dir_old, other_dir, display>>

RawFile == "B_rawdata.txt"
CsvFile == "B.csv"
MsFile == "B_morningstar.csv"
ReportFile == "B_report.txt"
TextFile == "B.txt"
FileNames == {RawFile, CsvFile, MsFile, ReportFile, TextFile}

NoDf == [cols |-> {}, n |-> 0, Value |-> <<>>, Shares |-> <<>>, Value_numeric |-> <<>>]
NoPaths ==
    [raw_data_path |-> None, csv_path |-> None, text_path |-> None,
     morningstar_path |-> None, report_path |-> None]
NoResult ==
    [returned |-> FALSE, success |-> FALSE, error |-> None, text |-> None, holdings |-> None,
     csv_path |-> None, raw_data_path |-> None, text_path |-> None,
     morningstar_path |-> None, report_path |-> None]
NothingWritten == [f \in FileNames |-> None]

Init ==
    /\ pc = "idle"
    /\ extracted_text = <<>>
    /\ holdings_data = NoHoldings
    /\ df = NoDf
    /\ stats = NoStats
    /\ paths = NoPaths
    /\ files = {}
    /\ written = NothingWritten
    /\ result = NoResult
    /\ dir_old = FALSE
    /\ other_dir = "absent"
    /\ display = "none"

\* open(path, "w") ... write: the file exists afterwards, with this content
WriteFile(name, content) ==
    /\ files' = files \cup {name}
    /\ written' = [written EXCEPT ![name] = Some(content)]

\* lines 233-241 and 257-265: the failure dict
FailureResult(message, text, raw_path) ==
    [NoResult EXCEPT !.returned = TRUE, !.success = FALSE, !.error = Some(message),
                     !.text = text, !.raw_data_path = raw_path]

\* lines 289-299: the success dict
SuccessResult(text, holdings, p) ==
    [returned |-> TRUE, success |-> TRUE, error |-> None, text |-> Some(text),
     holdings |-> Some(holdings), csv_path |-> p.csv_path, raw_data_path |-> p.raw_data_path,
     text_path |-> p.text_path, morningstar_path |-> p.morningstar_path,
     report_path |-> p.report_path]

\* cleanup_old_sessions (88-124) on one directory of another session: removed
\* when its modification time is more than 24 hours back
CleanedUp(d) == IF d = "old" THEN "absent" ELSE d

\* main with a file uploaded and the button pressed (453-469): the upload was
\* written into the session's directory (207-210), cleanup_old_sessions ran,
\* and process_webarchive starts: the extractor returns its text (230)
Extract ==
    /\ pc \in {"idle", "returned"}
    /\ \E text \in ExtractedTexts : extracted_text' = text
    /\ holdings_data' = NoHoldings
    /\ df' = NoDf
    /\ stats' = NoStats
    /\ paths' = NoPaths
    /\ written' = NothingWritten
    /\ result' = NoResult
    /\ pc' = "extracted"
    /\ UNCHANGED files
    /\ dir_old' = FALSE
    /\ other_dir' = CleanedUp(other_dir)
    /\ display' = "none"

\* mutant: only an empty text counts as a failed extraction
ExtractionFailed_EmptyOnly(text) == text = <<>>

\* line 232
ExtractionFailed(text) == text = <<>> \/ StartsWith(text, "Error")

\* lines 232-241
ReturnExtractionError ==
    /\ pc = "extracted"
    /\ ExtractionFailed(extracted_text)
    /\ result' = FailureResult(IF extracted_text # <<>> THEN extracted_text
                               ELSE <<"Extraction failed: No content extracted">>,
                               None, None)
    /\ pc' = "returned"
    /\ UNCHANGED <<extracted_text, holdings_data, df, stats, paths, files, written>>
    /\ UNCHANGED session

\* mutant: the raw text is not written before parsing
SaveRawData_NotWritten ==
    /\ pc = "extracted"
    /\ ~ExtractionFailed(extracted_text)
    /\ paths' = [paths EXCEPT !.raw_data_path = Some(RawFile)]
    /\ pc' = "rawsaved"
    /\ UNCHANGED <<extracted_text, holdings_data, df, stats, result, files, written>>
    /\ UNCHANGED session

\* lines 243-245 with save_raw_data_to_file (158-165)
SaveRawData ==
    /\ pc = "extracted"
    /\ ~ExtractionFailed(extracted_text)
    /\ WriteFile(RawFile, extracted_text)
    /\ paths' = [paths EXCEPT !.raw_data_path = Some(RawFile)]
    /\ pc' = "rawsaved"
    /\ UNCHANGED <<extracted_text, holdings_data, df, stats, result>>
    /\ UNCHANGED session

\* line 255
ParseFrom(outputs) ==
    /\ pc = "rawsaved"
    /\ \E h \in outputs : holdings_data' = h
    /\ pc' = "parsed"
    /\ UNCHANGED <<extracted_text, df, stats, paths, files, written, result>>
    /\ UNCHANGED session
Parse == ParseFrom(ParserOutputs)

\* mutant: the parser's sentinel is looked for under the extractor's prefix
ParseFailed_WrongPrefix(h) == h.kind = "str" /\ StartsWith(h.s, "Error")

\* line 256
ParseFailed(h) == h.kind = "str" /\ StartsWith(h.s, "Could not")

\* lines 256-265
ReturnParseError ==
    /\ pc = "parsed"
    /\ ParseFailed(holdings_data)
    /\ result' = FailureResult(holdings_data.s, Some(extracted_text), paths.raw_data_path)
    /\ pc' = "returned"
    /\ UNCHANGED <<extracted_text, holdings_data, df, stats, paths, files, written>>
    /\ UNCHANGED session

\* lines 268-274: save_holdings_to_csv, then df = pd.read_csv(csv_path)
SaveCsv ==
    /\ pc = "parsed"
    /\ ~ParseFailed(holdings_data)
    /\ WriteFile(CsvFile, holdings_data.t)
    /\ paths' = [paths EXCEPT !.csv_path = Some(CsvFile)]
    /\ df' = ReadCsv(holdings_data.t)
    /\ pc' = "csvsaved"
    /\ UNCHANGED <<extracted_text, holdings_data, stats, result>>
    /\ UNCHANGED session

\* line 275 with create_morningstar_csv (366-386)
CreateMorningstarCsv ==
    /\ pc = "csvsaved"
    /\ LET ms == MorningstarTable(df) IN
       IF IsNone(ms)
       THEN /\ paths' = [paths EXCEPT !.morningstar_path = None]
            /\ UNCHANGED <<files, written>>
       ELSE /\ WriteFile(MsFile, ms[1])
            /\ paths' = [paths EXCEPT !.morningstar_path = Some(MsFile)]
    /\ pc' = "msdone"
    /\ UNCHANGED <<extracted_text, holdings_data, df, stats, result>>
    /\ UNCHANGED session

\* line 278 with calculate_portfolio_statistics (309-364)
CalculateStatistics ==
    /\ pc = "msdone"
    /\ \E out \in CalcStats(df) :
          /\ stats' = out.stats
          /\ df' = out.df
    /\ pc' = "statsdone"
    /\ UNCHANGED <<extracted_text, holdings_data, paths, files, written, result>>
    /\ UNCHANGED session

\* lines 279-280 with create_text_report (388-436)
CreateTextReport ==
    /\ pc = "statsdone"
    /\ "error" \notin stats.keys
    /\ \E text \in TextReports(stats, df) : WriteFile(ReportFile, text)
    /\ paths' = [paths EXCEPT !.report_path = Some(ReportFile)]
    /\ pc' = "reportdone"
    /\ UNCHANGED <<extracted_text, holdings_data, df, stats, result>>
    /\ UNCHANGED session

\* line 279, the condition false: no report
SkipTextReport ==
    /\ pc = "statsdone"
    /\ "error" \in stats.keys
    /\ pc' = "reportdone"
    /\ UNCHANGED <<extracted_text, holdings_data, df, stats, paths, files, written, result>>
    /\ UNCHANGED session

\* lines 282-299: B.txt from format_holdings_as_text, then the success dict
WriteTextAndReturn ==
    /\ pc = "reportdone"
    /\ WriteFile(TextFile, holdings_data.t)
    /\ paths' = [paths EXCEPT !.text_path = Some(TextFile)]
    /\ result' = SuccessResult(extracted_text, holdings_data.t, paths')
    /\ pc' = "returned"
    /\ UNCHANGED <<extracted_text, holdings_data, df, stats>>
    /\ UNCHANGED session

Next ==
    \/ Extract
    \/ ReturnExtractionError
    \/ SaveRawData
    \/ Parse
    \/ ReturnParseError
    \/ SaveCsv
    \/ CreateMorningstarCsv
    \/ CalculateStatistics
    \/ CreateTextReport
    \/ SkipTextReport
    \/ WriteTextAndReturn

Spec == Init /\ [][Next]_vars

\* One invocation on a long table
InvokeOnce == pc = "idle" /\ Extract
ParseLong == ParseFrom(LongParserOutputs)
NextLong ==
    \/ InvokeOnce
    \/ ReturnExtractionError
    \/ SaveRawData
    \/ ParseLong
    \/ ReturnParseError
    \/ SaveCsv
    \/ CreateMorningstarCsv
    \/ CalculateStatistics
    \/ CreateTextReport
    \/ SkipTextReport
    \/ WriteTextAndReturn

SpecLong == Init /\ [][NextLong]_vars

\* ------------------------------------------------------------- sessions
\* The session of the variables above next to one other session: both keep
\* their files in a directory of their own under user_files (66-84), and
\* each runs cleanup_old_sessions before it processes a file.

\* the files main opens to offer the downloads of a stored result (524-587)
PathsRead(r) ==
    LET second == IF r.morningstar_path # None THEN r.morningstar_path ELSE r.text_path
        third == IF r.report_path # None THEN r.report_path ELSE r.raw_data_path
    IN {q[1] : q \in {r.csv_path, second, third} \ {None}}

\* result and result["holdings"] (476, 480): a stored success with holdings
HoldingsShown(r) == r.returned /\ r.success /\ r.holdings # None /\ r.holdings[1].n > 0

\* a run of main that processes nothing (a widget was used): the stored
\* result is displayed, its files are opened; an upload still held by the
\* uploader is written into the directory again (205-211) and unlinked (677-679)
Display ==
    /\ pc = "returned"
    /\ display' = IF HoldingsShown(result) /\ ~(PathsRead(result) \subseteq files)
                  THEN "crashed" ELSE "shown"
    /\ \E held \in BOOLEAN : dir_old' = (IF held THEN FALSE ELSE dir_old)
    /\ UNCHANGED <<pc, extracted_text, holdings_data, df, stats, paths, files, written, result,
                   other_dir>>

\* more than 24 hours pass in which no session runs
DayPasses ==
    /\ pc \in {"idle", "returned"}
    /\ ~dir_old \/ other_dir = "fresh"
    /\ dir_old' = TRUE
    /\ other_dir' = (IF other_dir = "fresh" THEN "old" ELSE other_dir)
    /\ UNCHANGED <<pc, extracted_text, holdings_data, df, stats, paths, files, written, result,
                   display>>

\* the other session uploads and processes a file: its directory is written,
\* and its cleanup_old_sessions (88-124) removes this session's directory with
\* everything in it when that was last modified more than 24 hours ago
OtherSessionProcesses ==
    /\ other_dir' = "fresh"
    /\ IF dir_old
       THEN files' = {} /\ dir_old' = FALSE
       ELSE UNCHANGED <<files, dir_old>>
    /\ UNCHANGED <<pc, extracted_text, holdings_data, df, stats, paths, written, result, display>>

MaxSessionRows == 1
SessionParserOutputs == {CouldNot} \cup {HoldingsList(t) : t \in HoldingsTables(MaxSessionRows)}
ParseInSession == ParseFrom(SessionParserOutputs)

NextSessions ==
    \/ Extract
    \/ ReturnExtractionError
    \/ SaveRawData
    \/ ParseInSession
    \/ ReturnParseError
    \/ SaveCsv
    \/ CreateMorningstarCsv
    \/ CalculateStatistics
    \/ CreateTextReport
    \/ SkipTextReport
    \/ WriteTextAndReturn
    \/ Display
    \/ DayPasses
    \/ OtherSessionProcesses

SpecSessions == Init /\ [][NextSessions]_vars

\* ======================================================== properties
\* ---- what a state says about the invocation in progress
Coercible(text) == IsNumberText(StripCurrency(text))
InputTable == holdings_data.t
InputValueTexts == [i \in 1..Len(InputTable.Value) |-> CsvText(InputTable.Value[i])]
AllCoercible == \A i \in 1..Len(InputValueTexts) : Coercible(InputValueTexts[i])
InputValues == [i \in 1..Len(InputValueTexts) |-> NumberValue(StripCurrency(InputValueTexts[i]))]
StatsReturned == pc \in {"statsdone", "reportdone", "returned"} /\ holdings_data.kind = "list"
ExtractionSucceeded == extracted_text # <<>> /\ extracted_text[1] # "Error"
Distinct(s) == \A i, j \in 1..Len(s) : i # j => s[i] # s[j]
MinOf(a, b) == IF a < b THEN a ELSE b

\* C1: once extraction succeeded and parsing was attempted (or the invocation
\* returned), B_rawdata.txt exists with the extracted text, and a returned
\* result, failure or success, reports its path.
C1_RawDataPersistedBeforeParsing ==
    (ExtractionSucceeded /\ (holdings_data.kind # "none" \/ result.returned)) =>
        /\ RawFile \in files
        /\ written[RawFile] = Some(extracted_text)
        /\ (result.returned => result.raw_data_path = Some(RawFile))

\* C1 witness: parsing failed after a successful extraction, and the failure
\* result reports the raw text file, which exists.
C1_Witness ==
    /\ pc = "returned" /\ ~result.success /\ holdings_data.kind = "str"
    /\ RawFile \in files /\ result.raw_data_path = Some(RawFile)

ErrorOccurred ==
    \/ ~ExtractionSucceeded
    \/ holdings_data.kind = "str"
    \/ "error" \in stats.keys
    \/ (holdings_data.kind = "list" /\ "Value" \in InputTable.cols /\ AllCoercible
          /\ (InputTable.n = 0 \/ SumInt(InputValues) = 0))

\* C2 as stated: whenever one of the five error kinds occurred (extraction,
\* parse, schema, numeric, degenerate statistics), the invocation returns a
\* failure result.
C2_Original_EveryErrorFails ==
    (pc = "returned" /\ ErrorOccurred) => (result.returned /\ ~result.success)

StageOf(p) ==
    CASE p = "idle" -> 0 [] p = "extracted" -> 1 [] p = "rawsaved" -> 2 [] p = "parsed" -> 3
      [] p = "csvsaved" -> 4 [] p = "msdone" -> 5 [] p = "statsdone" -> 6
      [] p = "reportdone" -> 7 [] p = "returned" -> 8
C2_ResultShape ==
    /\ (pc = "returned") = result.returned
    /\ result.returned =>
         /\ result.success = (ExtractionSucceeded /\ holdings_data.kind = "list")
         /\ (~result.success) = (result.error # None)
         /\ ("error" \in stats.keys =>
                result.success /\ result.report_path = None /\ written[ReportFile] = None)
C2_NoRetry == (pc \notin {"idle", "returned"}) => StageOf(pc') > StageOf(pc)

\* C2 amended: a returned invocation is Failed exactly on an extraction or a
\* parse error, with the message in a structured result; an error of the
\* statistics stage stays inside stats, and the invocation returns success
\* with no report; within an invocation no stage runs twice.
C2_FailureOnlyBeforeStatistics == [](C2_ResultShape) /\ [][C2_NoRetry]_vars

\* C2 witness: a value that is no number made the statistics fail, and the
\* invocation returned success without a report.
C2_Witness ==
    /\ pc = "returned" /\ result.success /\ stats.error = ErrException
    /\ result.report_path = None

\* C3 as stated: a table with zero rows or a zero total makes the statistics
\* an error without percentages, and no report is written.
C3_Claim_DegenerateIsError ==
    (StatsReturned /\ "Value" \in InputTable.cols /\ AllCoercible
        /\ (InputTable.n = 0 \/ SumInt(InputValues) = 0)) =>
        /\ "error" \in stats.keys
        /\ "holdings_pct" \notin stats.keys
        /\ written[ReportFile] = None

\* C4 as stated: the statistics resolve Symbol as the reduced export does
\* (Ticker, else Symbol), and report it missing only when both are absent.
C4_Claim_SameResolution ==
    (StatsReturned /\ "Value" \in InputTable.cols /\ AllCoercible) =>
        /\ StatsSymbolColumn(df.cols) = TickerCol(df.cols)
        /\ (stats.error = ErrMissingSymbol =>
                "Ticker" \notin InputTable.cols /\ "Symbol" \notin InputTable.cols)

StatisticKeys == SummaryKeys \cup {"top_holdings", "holdings_pct"}

\* C5: a Value that is no number once '$' and ',' are removed aborts the
\* statistics before any statistic: the dict holds an error and none of the
\* statistics, and B.csv and B_rawdata.txt exist and are reported.
C5_NumericErrorAbortsStatistics ==
    (StatsReturned /\ "Value" \in InputTable.cols /\ ~AllCoercible) =>
        /\ "error" \in stats.keys
        /\ stats.keys \cap StatisticKeys = {}
        /\ {CsvFile, RawFile} \subseteq files
        /\ written[CsvFile] # None /\ written[RawFile] # None
        /\ (result.returned =>
                result.csv_path = Some(CsvFile) /\ result.raw_data_path = Some(RawFile))

\* C5 witness: an invocation returned after the statistics failed on a value
\* that is no number.
C5_Witness ==
    /\ pc = "returned" /\ "Value" \in InputTable.cols /\ ~AllCoercible
    /\ stats.keys = {"error", "traceback"} /\ result.csv_path = Some(CsvFile)

NoSymbolCase ==
    /\ pc = "returned" /\ result.success
    /\ "Ticker" \notin InputTable.cols /\ "Symbol" \notin InputTable.cols
    /\ "Value" \in InputTable.cols /\ AllCoercible

\* C6 as stated: without Ticker and Symbol the reduced export is omitted, the
\* summary statistics succeed, no error is raised and no other artifact is
\* withheld.
C6_Original_NothingElseWithheld ==
    NoSymbolCase =>
        /\ written[MsFile] = None /\ result.morningstar_path = None
        /\ SummaryKeys \subseteq stats.keys
        /\ "error" \notin stats.keys
        /\ \A f \in {RawFile, CsvFile, TextFile, ReportFile} : written[f] # None

\* C6 amended: without Ticker and Symbol (Value present and coercible) the
\* reduced export is omitted, the five summary statistics are computed and
\* returned together with the error "Missing required columns: Symbol", the
\* text report is withheld too, and the raw text, the CSV and the formatted
\* text are written and reported by a successful result.
C6_NoSymbolOmitsExportAndReport ==
    NoSymbolCase =>
        /\ written[MsFile] = None /\ result.morningstar_path = None
        /\ stats.keys = SummaryKeys \cup {"error"}
        /\ stats.error = ErrMissingSymbol
        /\ stats.total_value = Fin(SumInt(InputValues))
        /\ stats.count = InputTable.n
        /\ written[ReportFile] = None /\ result.report_path = None
        /\ \A f \in {RawFile, CsvFile, TextFile} : written[f] # None
        /\ result.raw_data_path = Some(RawFile)
        /\ result.csv_path = Some(CsvFile)
        /\ result.text_path = Some(TextFile)

\* C6 witness: a returned invocation on two holdings with Shares and Value
\* but neither Ticker nor Symbol.
C6_Witness == NoSymbolCase /\ InputTable.n = 2 /\ "Shares" \in InputTable.cols

ExportApplies ==
    /\ holdings_data.kind = "list"
    /\ ("Ticker" \in InputTable.cols \/ "Symbol" \in InputTable.cols)
    /\ "Shares" \in InputTable.cols
ExportSourceColumn == IF "Ticker" \in InputTable.cols THEN "Ticker" ELSE "Symbol"
ExportRows == [i \in 1..InputTable.n |-> <<<<ExportSourceColumn, i>>, InputTable.Shares[i]>>]

\* C7 as stated: after an invocation B_morningstar.csv exists iff the CSV was
\* produced and Symbol and Shares resolve; it then has the columns Symbol and
\* Shares and one row per holding in input order; otherwise there is no file
\* and no path.
C7_Original_SymbolSharesExport ==
    pc = "returned" =>
        /\ (MsFile \in files) = (written[CsvFile] # None /\ ExportApplies)
        /\ (MsFile \in files =>
               /\ written[MsFile] # None
               /\ written[MsFile][1].header = <<"Symbol", "Shares">>
               /\ written[MsFile][1].rows = ExportRows)
        /\ (MsFile \notin files => result.morningstar_path = None)

\* C7 amended: an invocation writes B_morningstar.csv iff it produced the CSV
\* and the table has a Ticker or Symbol column and a Shares column; the file
\* then has the header Ticker, Shares and one row per holding in input order,
\* and its path is returned; otherwise the invocation writes no such file and
\* returns no path (a file left by an earlier invocation stays).
C7_ExportIffTickerAndShares ==
    pc \in {"msdone", "statsdone", "reportdone", "returned"} =>
        /\ (written[MsFile] # None) = (written[CsvFile] # None /\ ExportApplies)
        /\ (written[MsFile] # None =>
               /\ MsFile \in files
               /\ written[MsFile][1].header = <<"Ticker", "Shares">>
               /\ written[MsFile][1].rows = ExportRows
               /\ paths.morningstar_path = Some(MsFile))
        /\ (written[MsFile] = None => paths.morningstar_path = None)
        /\ (result.returned /\ result.success => result.morningstar_path = paths.morningstar_path)
        /\ (result.returned /\ ~result.success => result.morningstar_path = None)

\* C7 witness: an invocation on two holdings with Symbol (no Ticker) and
\* Shares returned the path of the export it wrote.
C7_Witness ==
    /\ pc = "returned" /\ result.morningstar_path = Some(MsFile)
    /\ written[MsFile] # None
    /\ "Ticker" \notin InputTable.cols /\ InputTable.n = 2

\* a file of an earlier invocation outlives an invocation that omits the export
C7_StaleFileReachable ==
    pc = "returned" /\ result.success /\ result.morningstar_path = None /\ MsFile \in files

\* the stable descending order of the rows 1..Len(key): rows of equal key in
\* input order
RECURSIVE StableDescFrom(_, _)
StableDescFrom(S, key) ==
    IF S = {} THEN <<>>
    ELSE LET m == CHOOSE i \in S : \A j \in S : key[i] > key[j] \/ (key[i] = key[j] /\ i <= j)
         IN <<m>> \o StableDescFrom(S \ {m}, key)
StableDesc(key) == StableDescFrom(DOMAIN key, key)

ReportTopRows(r) == [j \in 1..Len(r.top) |-> r.top[j].Name[2]]

\* C9 as stated, for values that are pairwise different and a total that is
\* not zero: the top section of the report lists the rows of top_holdings, in
\* the order of top_holdings.
C9_Claim_TopSectionIsTopHoldings ==
    (written[ReportFile] # None /\ Distinct(InputValues) /\ SumInt(InputValues) # 0) =>
        ReportTopRows(written[ReportFile][1]) = stats.top_holdings

\* the plain sum of floats (nan and inf propagate)
RECURSIVE FSum(_)
FSum(s) == IF s = <<>> THEN Fin(0) ELSE FAdd(Head(s), FSum(Tail(s)))
ListedPct(r) == FSum([j \in 1..Len(r.top) |-> r.top[j].pct])
ListedValue(r) == FSum([j \in 1..Len(r.top) |-> Fin(r.top[j].value)])
OtherLineAsClaimed(r) ==
    /\ (r.other # None) = (InputTable.n > TopN)
    /\ r.other # None =>
          /\ Len(r.top) = TopN
          /\ FEq(r.other[1].pct, FAdd(Fin(100), FNeg(ListedPct(r))))
          /\ FEq(r.other[1].value, FAdd(r.summary.total_value, FNeg(ListedValue(r))))

\* C10 as stated: the report has an "Other Holdings" line iff there are more
\* than 10 holdings; then 10 holdings are listed, the line's percentage is 100
\* minus the sum of the listed percentages and its value is total_value minus
\* the sum of the listed values.
C10_Claim_OtherHoldingsLine ==
    written[ReportFile] # None => OtherLineAsClaimed(written[ReportFile][1])

\* the statement of C10 restricted to the reports of a table whose total is
\* not zero
C10_HoldsForNonZeroTotal ==
    (written[ReportFile] # None /\ SumInt(InputValues) # 0) =>
        OtherLineAsClaimed(written[ReportFile][1])

\* the row a line of the ALL HOLDINGS section was written for (tables with a
\* Name column)
LineRow(line) == line.name[2]
SharesUnavailable(i) == "Shares" \notin InputTable.cols \/ InputTable.Shares[i] = None

\* C11 as stated, for tables with a Name column: a line of the full listing
\* has no ", N shares" segment exactly when Shares is unavailable for its
\* holding (column absent, or the cell of that row missing).
C11_Claim_SegmentOmittedWhenUnavailable ==
    (written[ReportFile] # None /\ "Name" \in InputTable.cols) =>
        LET all == written[ReportFile][1].all
        IN \A j \in 1..Len(all) : (all[j].shares = None) = SharesUnavailable(LineRow(all[j]))

\* what the listing does instead: the segment follows the column alone, and
\* the line of a missing cell carries a segment made from the missing value
C11_SegmentFollowsColumn ==
    (written[ReportFile] # None /\ "Name" \in InputTable.cols) =>
        LET all == written[ReportFile][1].all
        IN \A j \in 1..Len(all) :
              /\ (all[j].shares = None) = ("Shares" \notin InputTable.cols)
              /\ (all[j].shares # None => all[j].shares[1] = InputTable.Shares[LineRow(all[j])])

\* the table process_webarchive read back from B.csv, before any stage saw it
TableAsRead == ReadCsv(InputTable)

\* C12 as stated: once calculate_portfolio_statistics returned, on success
\* and on every error path, the table passed to it has the columns and the
\* cells it was passed with.
C12_Claim_TableUnchangedByStatistics ==
    StatsReturned => df = TableAsRead

\* the error paths taken before the column is assigned leave the table as it
\* was; every other path leaves it with the added column Value_numeric, and
\* the report is written from that column
C12_TableGainsValueNumeric ==
    StatsReturned =>
        /\ df = (IF "Value" \in InputTable.cols /\ AllCoercible
                 THEN WithValueNumeric(TableAsRead, InputValues) ELSE TableAsRead)
        /\ (written[ReportFile] # None => "Value_numeric" \in df.cols \ TableAsRead.cols)

DefaultExtractionError == <<"Extraction failed: No content extracted">>

\* C14: when extraction returned an empty text or a text starting with
\* "Error", the invocation returns a failure result carrying that text (the
\* default message for an empty one) with every artifact path absent, and it
\* has written no file.
C14_ExtractionErrorWritesNothing ==
    (pc = "returned" /\ ~ExtractionSucceeded) =>
        /\ result.returned /\ ~result.success
        /\ result.error = Some(IF extracted_text = <<>> THEN DefaultExtractionError
                                ELSE extracted_text)
        /\ result.text = None /\ result.holdings = None
        /\ \A k \in {"csv_path", "raw_data_path", "text_path", "morningstar_path", "report_path"} :
               result[k] = None
        /\ written = NothingWritten
        /\ paths = NoPaths

\* C14 witness: an invocation failed on a text starting with "Error" in a
\* directory that holds the files of an earlier invocation.
C14_Witness ==
    /\ pc = "returned" /\ StartsWith(extracted_text, "Error")
    /\ result.error = Some(extracted_text)
    /\ written = NothingWritten /\ RawFile \in files

\* a table whose Value column holds the numbers vals (numeric dtype unless empty)
NumericColumn(vals) ==
    [NoDf EXCEPT !.cols = {"Value"}, !.n = Len(vals),
                 !.Value = [i \in 1..Len(vals) |-> IntText(vals[i])]]

\* C15: whenever the normalization of a Value column succeeded, normalizing
\* the column it produced gives that column again, and every cell that was
\* already a number has kept its value.
C15_NormalizationIdempotent ==
    (StatsReturned /\ "Value_numeric" \in df.cols) =>
        LET again == NormalizeValue(NumericColumn(df.Value_numeric))
        IN /\ Len(df.Value_numeric) = Len(df.Value)
           /\ again.ok
           /\ again.vals = df.Value_numeric
           /\ \A i \in 1..Len(df.Value) :
                  IsNumberText(df.Value[i]) => df.Value_numeric[i] = NumberValue(df.Value[i])

\* C15 witness: a column with a negative number next to a cell written with
\* '$' and ',' was normalized.
C15_Witness ==
    /\ StatsReturned /\ "Value_numeric" \in df.cols
    /\ \E i, j \in 1..Len(df.Value) :
          /\ ~IsNumberText(df.Value[i]) /\ df.Value_numeric[i] = 10
          /\ df.Value[j] = <<"-", "2">> /\ df.Value_numeric[j] = -2

ReportStatistics ==
    {"total_value", "count", "avg_value", "max_value", "min_value", "top_holdings", "holdings_pct"}

\* C16: every dict calculate_portfolio_statistics returned holds the key
\* 'error' or all seven statistics, so whenever a report was written every
\* statistic it reads was present and no error was recorded.
C16_ErrorOrAllStatistics ==
    StatsReturned =>
        /\ ("error" \in stats.keys \/ ReportStatistics \subseteq stats.keys)
        /\ (written[ReportFile] # None =>
                "error" \notin stats.keys /\ ReportStatistics \subseteq stats.keys)

\* C16 witness: the statistics of a table without a Name column failed after
\* top_holdings was stored, and no report was written from the partial dict.
C16_Witness ==
    /\ pc = "returned" /\ result.success
    /\ stats.keys = SummaryKeys \cup {"top_holdings", "error", "traceback"}
    /\ written[ReportFile] = None

ReportedPaths(r) ==
    {q[1] : q \in {r.csv_path, r.raw_data_path, r.text_path, r.morningstar_path, r.report_path}
                     \ {None}}

\* C13 as stated: whatever the other session does in between, every file a
\* session's stored result reports still exists, and no run of main fails to
\* read one.
C13_Claim_SessionsIsolated ==
    /\ display # "crashed"
    /\ (pc = "returned" /\ result.success) => ReportedPaths(result) \subseteq files

\* the files of the session change only by a write of its own invocation, or
\* by the cleanup of the other session once the directory is older than 24
\* hours; nothing else of the session's state is touched by the other session
C13_OnlyCleanupCrossesSessions ==
    [][/\ (files' # files /\ ~(files \subseteq files')) => (dir_old /\ files' = {})
       /\ (dir_old /\ files' = {} /\ files # {}) =>
              UNCHANGED <<pc, extracted_text, holdings_data, df, stats, paths, written, result>>]_vars
====
